---- MODULE Spec2Model ----
(***************************************************************************)
(* A model of the chart axis functions (applyChartTimeseriesXAxis,         *)
(* applyChartQuantitativeXAxis, applyChartOrdinalXAxis, applyChartYAxis    *)
(* and their helpers) and of the NewQueryOptions container.                *)
(*                                                                         *)
(* Numbers.  A JavaScript number that can be NaN, Infinity or a function   *)
(* object (d3's tick arguments) is a record [t, v].  Axis domains are      *)
(* fixed-point: an x domain bound is held in quarters (1 = 0.25), so that  *)
(* the padding 0.75 * xInterval of an integer xInterval is exact.  Time is *)
(* held in quarter hours, so that 0.75 hour is exact.                      *)
(***************************************************************************)
EXTENDS Integers, Sequences, FiniteSets, TLC

VARIABLES
  chart,          \* the dc chart handle: settings, size, axes, scales
  call,           \* the last call made: function, arguments, outcome
  callerXDomain,  \* the xDomain array object the caller holds and passes
  store,          \* the redux store NewQueryOptions is connected to
  ui              \* NewQueryOptions: mounted, last click, onComplete's argument

vars == <<chart, call, callerXDomain, store, ui>>

(***************************************************************************)
(* Bounds of the model.                                                    *)
(***************************************************************************)
MaxVal == 1        \* domain bounds, extents and min/max range over -MaxVal..MaxVal
MaxInterval == 2   \* xInterval ranges over 0..MaxInterval
MaxValues == 2     \* enumerated xValues have at most MaxValues elements
MaxLen == 4        \* enumerated values to average have at most MaxLen elements

Vals == (0 - MaxVal)..MaxVal
Domains == {<<a, b>> : a \in Vals, b \in Vals}
Intervals == 0..MaxInterval

(***************************************************************************)
(* JavaScript values.                                                      *)
(***************************************************************************)
Num(n) == [t |-> "number", v |-> n]
NaN == [t |-> "NaN", v |-> 0]
Infinity == [t |-> "Infinity", v |-> 0]
Function == [t |-> "function", v |-> 0]

\* a > b of JavaScript, a and b numbers, NaN, +Infinity or a function object
\* (a function converts to NaN): false as soon as one side is NaN.
JsGt(a, b) ==
  CASE a.t = "number" /\ b.t = "number" -> a.v > b.v
    [] a.t = "Infinity" /\ b.t = "number" -> TRUE
    [] OTHER -> FALSE

\* a truthy setting: false, undefined and "" are falsy; true and "compact" are not
Truthy(s) == s \notin {"false", "undefined", ""}

X_LABEL_PADDING == 10
Y_LABEL_PADDING == 22

(***************************************************************************)
(* Tick helpers.                                                           *)
(***************************************************************************)
\* axis.ticks() is d3's array of tick arguments; the count is its first element
getNumTicks(ticks) == ticks[1]

MIN_PIXELS_PER_TICK == 32
MAX_VALUES_TO_MEASURE == 100
APPROXIMATE_AVERAGE_CHAR_WIDTH_PIXELS == 8

\* values.slice(0, n)
Slice(values, n) == IF Len(values) <= n THEN values ELSE SubSeq(values, 1, n)

\* totalLength after the loop `for (let value of values) totalLength +=
\* String(value).length` has run over values[lo..hi] (summed by halves)
RECURSIVE SumLengthsOf(_, _, _)
SumLengthsOf(values, lo, hi) ==
  IF lo > hi THEN 0
  ELSE IF lo = hi THEN Len(values[lo])
  ELSE LET mid == (lo + hi) \div 2
       IN  SumLengthsOf(values, lo, mid) + SumLengthsOf(values, mid + 1, hi)

SumLengths(values) == SumLengthsOf(values, 1, Len(values))

\* Math.round(total / n) for total >= 0: halves round up, 0 / 0 is NaN
RoundDiv(total, n) ==
  IF n = 0 THEN NaN ELSE Num((2 * total + n) \div (2 * n))

\* String(value).length summed over the first 100 values, averaged and rounded
averageStringLengthOfValues(values) ==
  LET measured == Slice(values, MAX_VALUES_TO_MEASURE)
  IN  RoundDiv(SumLengths(measured), Len(measured))

\* Math.floor(chartWidthPixels / tickAverageWidthPixels), chartWidthPixels >= 0:
\* x / NaN and 0 / 0 are NaN, x / 0 is Infinity for x > 0
maxTicksFor(chartWidthPixels, tickAverageStringLength) ==
  IF tickAverageStringLength.t # "number" THEN NaN
  ELSE LET tickAverageWidthPixels ==
             tickAverageStringLength.v * APPROXIMATE_AVERAGE_CHAR_WIDTH_PIXELS
       IN  IF tickAverageWidthPixels = 0
           THEN (IF chartWidthPixels = 0 THEN NaN ELSE Infinity)
           ELSE Num(chartWidthPixels \div tickAverageWidthPixels)

\* adjustXAxisTicksIfNeeded setting the estimate without comparing it
adjustXAxisTicksAlways(ticks, chartWidthPixels, xValues) ==
  <<maxTicksFor(chartWidthPixels, averageStringLengthOfValues(xValues))>>

\* the axis' tick arguments after adjustXAxisTicksIfNeeded(axis, width, xValues)
adjustXAxisTicksIfNeeded(ticks, chartWidthPixels, xValues) ==
  LET maxTicks ==
        maxTicksFor(chartWidthPixels, averageStringLengthOfValues(xValues))
  IN  IF JsGt(getNumTicks(ticks), maxTicks) THEN <<maxTicks>> ELSE ticks

\* axisHeightPixels / numTicks < MIN_PIXELS_PER_TICK, axisHeightPixels >= 0:
\* a count that is no number, or 0 (the quotient is Infinity or NaN), is not less
heightPerTickTooSmall(axisHeightPixels, numTicks) ==
  /\ numTicks.t = "number"
  /\ numTicks.v > 0
  /\ axisHeightPixels < MIN_PIXELS_PER_TICK * numTicks.v

\* adjustYAxisTicksIfNeeded rounding the count up instead of down
adjustYAxisTicksCeil(ticks, axisHeightPixels) ==
  IF heightPerTickTooSmall(axisHeightPixels, getNumTicks(ticks))
  THEN <<Num((axisHeightPixels + MIN_PIXELS_PER_TICK - 1) \div MIN_PIXELS_PER_TICK)>>
  ELSE ticks

\* the axis' tick arguments after adjustYAxisTicksIfNeeded(axis, height)
adjustYAxisTicksIfNeeded(ticks, axisHeightPixels) ==
  IF heightPerTickTooSmall(axisHeightPixels, getNumTicks(ticks))
  THEN <<Num(axisHeightPixels \div MIN_PIXELS_PER_TICK)>>
  ELSE ticks

(***************************************************************************)
(* Series.  A single series is its data: the number of rows, the friendly  *)
(* names of its dimension column cols[0] and metric column cols[1], and    *)
(* the dimension column's timezone and unit ("" when it has none).         *)
(***************************************************************************)
Single(rows, col0, col1, tz) ==
  [rows |-> rows, col0 |-> col0, col1 |-> col1, timezone |-> tz, unit |-> ""]

datasetContainsNoResults(data) == data.rows = 0

getFriendlyName(column) == column

\* _.find(series, s => !datasetContainsNoResults(s.data))
firstNonEmpty(series) ==
  series[CHOOSE i \in 1..Len(series) :
           /\ ~datasetContainsNoResults(series[i])
           /\ \A j \in 1..(i - 1) : datasetContainsNoResults(series[j])]

HasNonEmpty(series) ==
  \E i \in 1..Len(series) : ~datasetContainsNoResults(series[i])

\* the series the specifications draw from: one has an empty series first
SeriesSet ==
  { <<Single(1, "x", "count", "UTC")>>,
    <<Single(0, "e", "sum", ""), Single(2, "x", "count", "UTC")>> }

(***************************************************************************)
(* The chart.                                                              *)
(***************************************************************************)
NoScale ==
  [type |-> "none", domain |-> <<0, 0>>, tz |-> "", interval |-> "", count |-> 0]

NumScale(type, domain) ==
  [type |-> type, domain |-> domain, tz |-> "", interval |-> "", count |-> 0]

DefaultFormat == [kind |-> "default", column |-> "", unit |-> "", compact |-> FALSE]
EmptyFormat == [kind |-> "empty", column |-> "", unit |-> "", compact |-> FALSE]
ValueFormat(column, unit, compact) ==
  [kind |-> "formatValue", column |-> column, unit |-> unit, compact |-> compact]
PercentFormat == [kind |-> "percent", column |-> "", unit |-> "", compact |-> FALSE]

NoLabel == [text |-> "", padding |-> 0]
Label(text, padding) == [text |-> text, padding |-> padding]

DefaultSettings ==
  [ xLabelsEnabled |-> "false", xTitleText |-> "", xAxisEnabled |-> "false",
    xGridLineEnabled |-> FALSE, xScale |-> "undefined",
    yLabelsEnabled |-> "false", yTitleText |-> "", yAxisEnabled |-> "false",
    yScale |-> "undefined", yAutoRange |-> FALSE, yMin |-> 0, yMax |-> 0,
    stackType |-> "undefined" ]

\* a chart as dc constructs it, given its settings, size and initial tick counts
NewChart(settings, width, height, xTicks, yTicks) ==
  [ settings |-> settings, width |-> width, height |-> height,
    xAxisLabel |-> NoLabel, verticalGridLines |-> FALSE,
    xTicks |-> xTicks, xTickFormat |-> DefaultFormat,
    x |-> NoScale, xUnits |-> "none", xUnitsArg |-> 0,
    yAxisLabel |-> NoLabel, rightYAxisLabel |-> NoLabel,
    horizontalGridLines |-> FALSE,
    yTicks |-> yTicks, rightYTicks |-> yTicks,
    yTickFormat |-> DefaultFormat, rightYTickFormat |-> DefaultFormat,
    y |-> NoScale, rightY |-> NoScale, elasticY |-> FALSE ]

IdleChart == NewChart(DefaultSettings, 0, 0, <<Num(10)>>, <<Num(10)>>)
IdleStore ==
  [hasQuery |-> FALSE,
   query |-> [database |-> "", table |-> "", aggregations |-> <<>>],
   databases |-> {}, tables |-> {}, requests |-> {}]
IdleUi == [mounted |-> FALSE, click |-> [list |-> "", item |-> ""], completed |-> <<>>]
NoCall == [fn |-> "none"]

X_CROSS_MESSAGE == "X-axis must not cross 0 when using log scale."
Y_CROSS_MESSAGE == "Y-axis must not cross 0 when using log scale."

\* crossesZero with the comparisons not strict: a bound equal to 0 passes
crossesZeroLoose(lo, hi) == ~((lo <= 0 /\ hi <= 0) \/ (lo >= 0 /\ hi >= 0))

\* !((lo < 0 && hi < 0) || (lo > 0 && hi > 0))
crossesZero(lo, hi) == ~((lo < 0 /\ hi < 0) \/ (lo > 0 /\ hi > 0))

\* [xDomain[0] - xInterval * 0.75, xDomain[1] + xInterval * 0.75], in quarters
padDomain(xDomain, xInterval) ==
  <<4 * xDomain[1] - 3 * xInterval, 4 * xDomain[2] + 3 * xInterval>>

\* the part of the three x axis functions that sets the axis label
withXAxisLabel(c, dimensionColumn) ==
  IF Truthy(c.settings.xLabelsEnabled)
  THEN [c EXCEPT !.xAxisLabel =
          Label(IF Truthy(c.settings.xTitleText)
                THEN c.settings.xTitleText
                ELSE getFriendlyName(dimensionColumn), X_LABEL_PADDING)]
  ELSE c

\* the chart after the label, grid line, tick and tick format steps of
\* applyChartQuantitativeXAxis
quantitativeAxis(c, series, xValues) ==
  LET dimensionColumn == firstNonEmpty(series).col0
      c1 == withXAxisLabel(c, dimensionColumn)
  IN  IF Truthy(c.settings.xAxisEnabled)
      THEN [c1 EXCEPT
              !.verticalGridLines = c.settings.xGridLineEnabled,
              !.xTicks = adjustXAxisTicksIfNeeded(c1.xTicks, c1.width, xValues),
              !.xTickFormat = ValueFormat(dimensionColumn, "",
                                          c.settings.xAxisEnabled = "compact")]
      ELSE [c1 EXCEPT !.xTicks = <<Num(0)>>, !.xTickFormat = EmptyFormat]

\* the d3 scale applyChartQuantitativeXAxis picks
quantitativeScaleType(setting) ==
  IF setting = "pow" THEN "pow" ELSE IF setting = "log" THEN "log" ELSE "linear"

\* does applyChartQuantitativeXAxis throw on this domain
quantitativeThrows(setting, xDomain) ==
  setting = "log" /\ crossesZero(xDomain[1], xDomain[2])

\* the scale step setting the scale and units before the log-scale check
quantitativeScaleStepInstallsFirst(c, xDomain, xInterval, threw) ==
  [c EXCEPT
     !.x = NumScale(quantitativeScaleType(c.settings.xScale),
                    padDomain(xDomain, xInterval)),
     !.xUnits = "fp.precision", !.xUnitsArg = xInterval]

\* the chart after the scale step: nothing is set when the check threw
quantitativeScaleStep(c, xDomain, xInterval, threw) ==
  IF threw THEN c
  ELSE [c EXCEPT
          !.x = NumScale(quantitativeScaleType(c.settings.xScale),
                         padDomain(xDomain, xInterval)),
          !.xUnits = "fp.precision", !.xUnitsArg = xInterval]

applyChartQuantitativeXAxis(series, xValues, xDomain, xInterval) ==
  LET c2 == quantitativeAxis(chart, series, xValues)
      threw == quantitativeThrows(chart.settings.xScale, xDomain)
  IN  /\ HasNonEmpty(series)
      /\ chart' = quantitativeScaleStep(c2, xDomain, xInterval, threw)
      /\ call' = [fn |-> "applyChartQuantitativeXAxis", xValues |-> xValues,
                  xDomain |-> xDomain, xInterval |-> xInterval,
                  threw |-> IF threw THEN X_CROSS_MESSAGE ELSE ""]
      /\ callerXDomain' = xDomain
      /\ UNCHANGED <<store, ui>>

(***************************************************************************)
(* SpecQ: a chart with a quantitative x axis, applied over and over.       *)
(***************************************************************************)
\* settings of the x axis: the labels off or on (titled or not), the axis off,
\* on with grid lines or compact without, and each scale setting
XSettings ==
  { [DefaultSettings EXCEPT !.xLabelsEnabled = l[1], !.xTitleText = l[2],
                            !.xAxisEnabled = a[1], !.xGridLineEnabled = a[2],
                            !.xScale = sc] :
      l \in {<<"false", "">>, <<"true", "">>, <<"true", "Title">>},
      a \in {<<"false", FALSE>>, <<"true", TRUE>>, <<"compact", FALSE>>},
      sc \in {"undefined", "linear", "pow", "log"} }

\* String(value) of the values of a quantitative dimension
QValues == { <<"-1.5", "0", "1.5">> }

\* the series of the quantitative chart: the first one is empty
QSeries == { <<Single(0, "e", "sum", ""), Single(2, "x", "count", "UTC")>> }

InitQ ==
  /\ chart \in { NewChart(s, 100, 0, <<Num(10)>>, <<Num(10)>>) : s \in XSettings }
  /\ call = NoCall
  /\ callerXDomain = <<0, 0>>
  /\ store = IdleStore
  /\ ui = IdleUi

NextQ ==
  \E series \in QSeries, xValues \in QValues,
     xDomain \in Domains, xInterval \in Intervals :
    applyChartQuantitativeXAxis(series, xValues, xDomain, xInterval)

SpecQ == InitQ /\ [][NextQ]_vars

QuantCall == call.fn = "applyChartQuantitativeXAxis"

\* C1: applyChartQuantitativeXAxis throws "X-axis must not cross 0 when using
\* log scale." exactly when graph.x_axis.scale is "log" and xDomain is not
\* strictly on one side of zero; a bound equal to 0 throws; with any other
\* scale setting the call never throws.
C1_ThrowsExactlyWhenLogCrossesZero ==
  QuantCall =>
    LET lo == call.xDomain[1]
        hi == call.xDomain[2]
        oneSide == (lo < 0 /\ hi < 0) \/ (lo > 0 /\ hi > 0)
    IN  /\ call.threw \in {"", "X-axis must not cross 0 when using log scale."}
        /\ (call.threw # "") <=> (chart.settings.xScale = "log" /\ ~oneSide)
        /\ (chart.settings.xScale = "log" /\ (lo = 0 \/ hi = 0)) => call.threw # ""
        /\ chart.settings.xScale \in {"pow", "linear", "undefined"} => call.threw = ""

\* a log-scale call that threw on a domain with a bound equal to 0
C1_Witness ==
  /\ QuantCall
  /\ chart.settings.xScale = "log"
  /\ call.xDomain[1] = 0
  /\ call.xDomain[2] > 0
  /\ call.threw # ""

\* C2: whenever applyChartQuantitativeXAxis returns normally with log scale,
\* the domain installed on the x scale (after the padding) has both bounds
\* strictly negative or both strictly positive.
C2_InstalledLogDomainOneSide ==
  (QuantCall /\ call.threw = "" /\ chart.settings.xScale = "log") =>
    \/ (chart.x.domain[1] < 0 /\ chart.x.domain[2] < 0)
    \/ (chart.x.domain[1] > 0 /\ chart.x.domain[2] > 0)

(***************************************************************************)
(* applyChartYAxis.  A y domain is in plain units (it is never padded).    *)
(***************************************************************************)
\* _.uniq(series.map(s => getFriendlyName(s.data.cols[1])))
uniqLabels(series) == { getFriendlyName(series[i].col1) : i \in 1..Len(series) }

\* the label step: the title if there is one, else the column name if all the
\* series share it, else the label is left alone
withYAxisLabel(c, series, right) ==
  LET set(text) ==
        IF right THEN [c EXCEPT !.rightYAxisLabel = Label(text, Y_LABEL_PADDING)]
                 ELSE [c EXCEPT !.yAxisLabel = Label(text, Y_LABEL_PADDING)]
  IN  IF ~Truthy(c.settings.yLabelsEnabled) THEN c
      ELSE IF Truthy(c.settings.yTitleText) THEN set(c.settings.yTitleText)
      ELSE IF Cardinality(uniqLabels(series)) = 1
           THEN set(CHOOSE l \in uniqLabels(series) : TRUE)
           ELSE c

\* the chart after the label, tick format, grid line and tick steps
yAxisSteps(c, series, right) ==
  LET c1 == withYAxisLabel(c, series, right)
      normalized == c.settings.stackType = "normalized"
  IN  IF Truthy(c.settings.yAxisEnabled)
      THEN IF right
           THEN [c1 EXCEPT
                   !.rightYTickFormat = IF normalized THEN PercentFormat ELSE @,
                   !.horizontalGridLines = TRUE,
                   !.rightYTicks = adjustYAxisTicksIfNeeded(@, c.height)]
           ELSE [c1 EXCEPT
                   !.yTickFormat = IF normalized THEN PercentFormat ELSE @,
                   !.horizontalGridLines = TRUE,
                   !.yTicks = adjustYAxisTicksIfNeeded(@, c.height)]
      ELSE IF right THEN [c1 EXCEPT !.rightYTicks = <<Num(0)>>]
                    ELSE [c1 EXCEPT !.yTicks = <<Num(0)>>]

\* yCheckedRange looking at the extent whatever auto_range says
yCheckedRangeAlwaysExtent(settings, yExtent) == yExtent

\* the range the log-scale check of applyChartYAxis looks at
yCheckedRange(settings, yExtent) ==
  IF settings.yAutoRange THEN yExtent ELSE <<settings.yMin, settings.yMax>>

\* does applyChartYAxis throw
yAxisThrows(settings, yExtent) ==
  LET r == yCheckedRange(settings, yExtent)
  IN  settings.yScale = "log" /\ crossesZero(r[1], r[2])

\* the scale applyChartYAxis installs when it does not throw: with auto_range
\* a non-log scale keeps d3's default domain [0, 1] (elasticY computes it later)
yInstalledScale(settings, yExtent) ==
  LET type == quantitativeScaleType(settings.yScale)
  IN  IF settings.yAutoRange
      THEN IF settings.yScale # "log" THEN NumScale(type, <<0, 1>>)
           ELSE NumScale(type, yExtent)
      ELSE NumScale(type, <<settings.yMin, settings.yMax>>)

applyChartYAxis(series, yExtent, axisName) ==
  LET right == axisName = "right"
      settings == chart.settings
      c2 == yAxisSteps(chart, series, right)
      threw == yAxisThrows(settings, yExtent)
      c3 == IF settings.yAutoRange /\ settings.yScale # "log"
            THEN [c2 EXCEPT !.elasticY = TRUE] ELSE c2
  IN  /\ chart' =
           IF threw THEN c2
           ELSE IF right THEN [c3 EXCEPT !.rightY = yInstalledScale(settings, yExtent)]
                ELSE [c3 EXCEPT !.y = yInstalledScale(settings, yExtent)]
      /\ call' = [fn |-> "applyChartYAxis", yExtent |-> yExtent,
                  axisName |-> axisName,
                  numTicks |-> getNumTicks(IF right THEN chart.rightYTicks
                                           ELSE chart.yTicks),
                  threw |-> IF threw THEN Y_CROSS_MESSAGE ELSE ""]
      /\ UNCHANGED <<callerXDomain, store, ui>>

AxisNames == {"left", "right"}

(***************************************************************************)
(* SpecY: a chart whose y axes are applied over and over, with every scale *)
(* setting and range.                                                      *)
(***************************************************************************)
\* the fixed ranges tried: every min and max for a log scale, and ranges on
\* one side of zero, across it and touching it for the other scales
YRanges(sc) == IF sc = "log" THEN Domains ELSE {<<1, 1>>, <<-1, 1>>, <<0, 1>>}

YScaleSettings ==
  { [DefaultSettings EXCEPT !.yLabelsEnabled = l, !.yAxisEnabled = a,
                            !.yScale = sc[1], !.yAutoRange = sc[2],
                            !.yMin = sc[3][1], !.yMax = sc[3][2]] :
      l \in {"false", "true"}, a \in {"false", "true"},
      sc \in { <<t, FALSE, r>> : t \in {"linear", "pow", "log"}, r \in Domains }
             \cup { <<t, TRUE, <<0, 0>> >> : t \in {"linear", "pow", "log"} } }

InitY ==
  /\ chart \in { NewChart(s, 0, 100, <<Num(10)>>, <<Num(10)>>) :
                   s \in { y \in YScaleSettings :
                             y.yAutoRange \/ <<y.yMin, y.yMax>> \in YRanges(y.yScale) } }
  /\ call = NoCall
  /\ callerXDomain = <<0, 0>>
  /\ store = IdleStore
  /\ ui = IdleUi

YSeries == { <<Single(1, "x", "count", "UTC")>> }

NextY ==
  \E series \in YSeries, yExtent \in Domains, axisName \in AxisNames :
    applyChartYAxis(series, yExtent, axisName)

SpecY == InitY /\ [][NextY]_vars

YCall == call.fn = "applyChartYAxis"

\* the scale of the axis the last applyChartYAxis call was about
CalledYScale == IF call.axisName = "right" THEN chart.rightY ELSE chart.y

\* C3: with log scale applyChartYAxis throws "Y-axis must not cross 0 when
\* using log scale." exactly when the effective range (yExtent with
\* auto_range, else [min, max]) is not strictly on one side of zero; when it
\* returns with log scale the domain installed on y (or rightY) is the
\* effective range; with a non-log scale it never throws.
C3_YThrowsExactlyWhenLogCrossesZero ==
  YCall =>
    LET st == chart.settings
        lo == IF st.yAutoRange THEN call.yExtent[1] ELSE st.yMin
        hi == IF st.yAutoRange THEN call.yExtent[2] ELSE st.yMax
        oneSide == (lo < 0 /\ hi < 0) \/ (lo > 0 /\ hi > 0)
    IN  /\ call.threw \in {"", "Y-axis must not cross 0 when using log scale."}
        /\ st.yScale = "log" => ((call.threw # "") <=> ~oneSide)
        /\ (st.yScale = "log" /\ call.threw = "") =>
              (CalledYScale.type = "log" /\ CalledYScale.domain = <<lo, hi>>)
        /\ st.yScale # "log" => call.threw = ""

\* a log-scale call on the right axis that returned with the extent installed
C3_Witness ==
  /\ YCall
  /\ chart.settings.yScale = "log"
  /\ chart.settings.yAutoRange
  /\ call.axisName = "right"
  /\ call.threw = ""
  /\ chart.rightY.domain = call.yExtent
  /\ call.yExtent[1] < 0

(***************************************************************************)
(* SpecYTicks: applyChartYAxis on charts of every height and initial tick  *)
(* count, with each way of labelling and formatting the axis.              *)
(***************************************************************************)
MaxTicks == 3      \* initial tick counts range over 0..MaxTicks and d3's 10
MaxHeight == 4     \* chart heights: 0, and 32 * k - 1, 32 * k, 32 * k + 1 for k in 1..MaxHeight

Heights ==
  {0, 400} \cup UNION { {MIN_PIXELS_PER_TICK * k - 1, MIN_PIXELS_PER_TICK * k,
                         MIN_PIXELS_PER_TICK * k + 1} : k \in 1..MaxHeight }

YTickCounts == (0..MaxTicks) \cup {10}

YTickSettings ==
  { [DefaultSettings EXCEPT !.yLabelsEnabled = l[1], !.yTitleText = l[2],
                            !.yAxisEnabled = a[1], !.stackType = a[2],
                            !.yScale = "linear", !.yAutoRange = TRUE] :
      l \in {<<"false", "">>, <<"true", "">>, <<"true", "Title">>},
      a \in {<<"false", "undefined">>, <<"true", "undefined">>,
             <<"true", "normalized">>} }

InitYTicks ==
  /\ chart \in { NewChart(s, 0, h, <<Num(10)>>, <<Num(n)>>) :
                   s \in YTickSettings, h \in Heights, n \in YTickCounts }
  /\ call = NoCall
  /\ callerXDomain = <<0, 0>>
  /\ store = IdleStore
  /\ ui = IdleUi

NextYTicks ==
  \E series \in SeriesSet, axisName \in AxisNames :
    applyChartYAxis(series, <<0, 1>>, axisName)

SpecYTicks == InitYTicks /\ [][NextYTicks]_vars

\* the tick count of the axis the last applyChartYAxis call was about
CalledYTicks == IF call.axisName = "right" THEN chart.rightYTicks ELSE chart.yTicks

\* C6: after applyChartYAxis with axis_enabled the tick count t satisfies
\* t * 32 <= height whenever it was adjusted, t <= n always, and t = n when
\* height / n >= 32 (n = 0 included); with axis_enabled unset t = 0.
C6_YTicksAtLeast32Pixels ==
  YCall =>
    LET t == CalledYTicks[1].v
        n == call.numTicks.v
        h == chart.height
    IN  /\ CalledYTicks[1].t = "number"
        /\ Len(CalledYTicks) = 1
        /\ chart.settings.yAxisEnabled = "true" =>
             /\ t # n => t * 32 <= h
             /\ t <= n
             /\ (n = 0 \/ h >= 32 * n) => t = n
             /\ t > 0 => 32 * t <= h
        /\ chart.settings.yAxisEnabled = "false" => t = 0

\* an enabled axis whose count was adjusted down to a positive count
C6_Witness ==
  /\ YCall
  /\ chart.settings.yAxisEnabled = "true"
  /\ call.numTicks.v = 3
  /\ CalledYTicks[1].v = 2
  /\ chart.height = 95

(***************************************************************************)
(* SpecAbort: the quantitative x axis and the y axes of one chart, with    *)
(* log and linear scales, on domains that pass and domains that throw.     *)
(***************************************************************************)
AbortSettings ==
  { [DefaultSettings EXCEPT !.xLabelsEnabled = "true", !.xTitleText = x[1],
                            !.xAxisEnabled = x[2], !.xGridLineEnabled = TRUE,
                            !.xScale = x[3],
                            !.yLabelsEnabled = "true", !.yAxisEnabled = y[1],
                            !.yScale = y[2], !.yAutoRange = y[3],
                            !.yMin = y[4][1], !.yMax = y[4][2]] :
      x \in {<<"", "true", "log">>, <<"Title", "false", "log">>,
             <<"", "true", "linear">>},
      y \in {<<"true", "log", TRUE, <<0, 0>> >>,
             <<"false", "log", TRUE, <<0, 0>> >>,
             <<"true", "log", FALSE, <<-1, 1>> >>,
             <<"true", "log", FALSE, <<1, 1>> >>,
             <<"true", "linear", TRUE, <<0, 0>> >>} }

\* two domains on one side of zero, one across it, one touching it
AbortDomains == {<<-1, -1>>, <<1, 1>>, <<-1, 1>>, <<0, 1>>}

InitAbort ==
  /\ chart \in { NewChart(s, 100, 100, <<Num(10)>>, <<Num(10)>>) :
                   s \in AbortSettings }
  /\ call = NoCall
  /\ callerXDomain = <<0, 0>>
  /\ store = IdleStore
  /\ ui = IdleUi

NextAbort ==
  \/ \E series \in QSeries, xValues \in QValues,
        xDomain \in AbortDomains, xInterval \in Intervals :
       applyChartQuantitativeXAxis(series, xValues, xDomain, xInterval)
  \/ \E series \in YSeries, yExtent \in AbortDomains, axisName \in AxisNames :
       applyChartYAxis(series, yExtent, axisName)

SpecAbort == InitAbort /\ [][NextAbort]_vars

\* C4: when applyChartQuantitativeXAxis or applyChartYAxis throws, the chart's
\* scales, units and elasticY are the ones it had before the call, while the
\* label, grid line, tick count and tick format changes of the call remain.
C4_ThrowLeavesScalesKeepsAxisChanges ==
  [][ /\ (call'.fn = "applyChartQuantitativeXAxis" /\ call'.threw # "") =>
           /\ chart'.x = chart.x
           /\ chart'.xUnits = chart.xUnits
           /\ chart'.xUnitsArg = chart.xUnitsArg
           /\ chart'.xAxisLabel =
                [text |-> IF chart.settings.xTitleText # ""
                          THEN chart.settings.xTitleText ELSE "x",
                 padding |-> 10]
           /\ chart.settings.xAxisEnabled = "true" =>
                /\ chart'.verticalGridLines
                /\ chart'.xTickFormat.kind = "formatValue"
                /\ chart'.xTicks = <<Num(4)>>
           /\ chart.settings.xAxisEnabled = "false" =>
                /\ chart'.xTicks = <<Num(0)>>
                /\ chart'.xTickFormat.kind = "empty"
      /\ (call'.fn = "applyChartYAxis" /\ call'.threw # "") =>
           /\ chart'.y = chart.y
           /\ chart'.rightY = chart.rightY
           /\ chart'.elasticY = chart.elasticY
           /\ (IF call'.axisName = "right" THEN chart'.rightYAxisLabel
               ELSE chart'.yAxisLabel) = [text |-> "count", padding |-> 22]
           /\ chart.settings.yAxisEnabled = "true" =>
                /\ chart'.horizontalGridLines
                /\ (IF call'.axisName = "right" THEN chart'.rightYTicks
                    ELSE chart'.yTicks) = <<Num(3)>>
           /\ chart.settings.yAxisEnabled = "false" =>
                (IF call'.axisName = "right" THEN chart'.rightYTicks
                 ELSE chart'.yTicks) = <<Num(0)>>
    ]_vars

\* a y axis call that threw on a chart whose x scale and left y scale had been
\* installed by earlier calls, with its label applied and no right scale
C4_Witness ==
  /\ YCall
  /\ call.threw # ""
  /\ call.axisName = "right"
  /\ chart.rightY.type = "none"
  /\ chart.rightYAxisLabel.text = "count"
  /\ chart.y.type = "log"
  /\ chart.x.type = "log"

(***************************************************************************)
(* applyChartOrdinalXAxis, and SpecO: an ordinal x axis applied to charts  *)
(* of several widths, the tick helpers called on xValues of every shape.   *)
(***************************************************************************)
\* d3.scale.ordinal().domain(xs): the distinct values, in order of appearance
ordinalDomain(xs) ==
  LET firsts == {i \in 1..Len(xs) : \A j \in 1..(i - 1) : xs[j] # xs[i]}
  IN  [k \in 1..Cardinality(firsts) |->
         xs[CHOOSE i \in firsts : Cardinality({j \in firsts : j < i}) = k - 1]]

applyChartOrdinalXAxis(series, xValues) ==
  LET dimensionColumn == firstNonEmpty(series).col0
      c1 == withXAxisLabel(chart, dimensionColumn)
      c2 == IF Truthy(chart.settings.xAxisEnabled)
            THEN [c1 EXCEPT
                    !.verticalGridLines = chart.settings.xGridLineEnabled,
                    !.xTicks = adjustXAxisTicksIfNeeded(<<Num(Len(xValues))>>,
                                                        c1.width, xValues),
                    !.xTickFormat =
                       ValueFormat(dimensionColumn, "",
                                   chart.settings.xLabelsEnabled = "compact")]
            ELSE [c1 EXCEPT !.xTicks = <<Num(0)>>, !.xTickFormat = EmptyFormat]
  IN  /\ HasNonEmpty(series)
      /\ chart' = [c2 EXCEPT
                     !.x = [NoScale EXCEPT !.type = "ordinal",
                                           !.domain = ordinalDomain(xValues)],
                     !.xUnits = "ordinal", !.xUnitsArg = 0]
      /\ call' = [fn |-> "applyChartOrdinalXAxis", xValues |-> xValues,
                  numTicks |-> getNumTicks(chart.xTicks)]
      /\ UNCHANGED <<callerXDomain, store, ui>>

\* a call of adjustXAxisTicksIfNeeded(chart.xAxis(), chart.width(), xValues)
adjustXAxisTicks(xValues) ==
  /\ chart' = [chart EXCEPT
                 !.xTicks = adjustXAxisTicksIfNeeded(@, chart.width, xValues)]
  /\ call' = [fn |-> "adjustXAxisTicksIfNeeded", xValues |-> xValues,
              numTicks |-> getNumTicks(chart.xTicks)]
  /\ UNCHANGED <<callerXDomain, store, ui>>

\* a call of averageStringLengthOfValues(values)
measureValues(values) ==
  /\ call' = [fn |-> "averageStringLengthOfValues", values |-> values,
              result |-> averageStringLengthOfValues(values)]
  /\ UNCHANGED <<chart, callerXDomain, store, ui>>

Strs == {"", "a", "toucan"}
LongString == "a label that is a good deal longer than the others: sixty chars."
DocumentedValues == <<"a", "toucan", "is", "wow">>

\* k copies of x followed by m copies of y
Run(k, x, m, y) == [i \in 1..(k + m) |-> IF i <= k THEN x ELSE y]

\* the documented example, and runs of 99 and 100 short values followed by a
\* long one
SpecialValues ==
  {DocumentedValues}
    \cup { Run(k, x, 1, LongString) :
             k \in {MAX_VALUES_TO_MEASURE - 1, MAX_VALUES_TO_MEASURE},
             x \in {"", "a"} }

\* every sequence of at most MaxValues empty or six-letter strings, and the
\* special values
OValues ==
  UNION { [1..n -> {"", "toucan"}] : n \in 0..MaxValues } \cup SpecialValues

OSettings ==
  { [DefaultSettings EXCEPT !.xLabelsEnabled = "compact", !.xAxisEnabled = a,
                            !.xGridLineEnabled = TRUE, !.xScale = "ordinal"] :
      a \in {"false", "true"} }

InitO ==
  /\ chart \in { NewChart(s, w, 0, <<Num(n)>>, <<Num(10)>>) :
                   s \in OSettings, w \in {0, 24, 100}, n \in {2, 10} }
  /\ call = NoCall
  /\ callerXDomain = <<0, 0>>
  /\ store = IdleStore
  /\ ui = IdleUi

NextO ==
  \/ \E series \in QSeries, xValues \in OValues :
       applyChartOrdinalXAxis(series, xValues)
  \/ \E xValues \in OValues : adjustXAxisTicks(xValues)

SpecO == InitO /\ [][NextO]_vars

\* the lengths of the first hundred values, and their sum
MeasuredLengths(values) ==
  [i \in 1..(IF Len(values) < 100 THEN Len(values) ELSE 100) |-> Len(values[i])]

RECURSIVE TotalOf(_, _, _)
TotalOf(ns, lo, hi) ==
  IF lo > hi THEN 0
  ELSE IF lo = hi THEN ns[lo]
  ELSE TotalOf(ns, lo, (lo + hi) \div 2) + TotalOf(ns, (lo + hi) \div 2 + 1, hi)

Total(ns) == TotalOf(ns, 1, Len(ns))

\* a is total / n rounded to the nearest integer, halves up
IsRoundedAverage(a, total, n) ==
  /\ n > 0
  /\ 2 * a * n <= 2 * total + n
  /\ 2 * total + n < 2 * (a + 1) * n

Min(a, b) == IF a < b THEN a ELSE b

\* C5: adjustXAxisTicksIfNeeded only ever lowers the tick count: with avgLen
\* the rounded average string length of the first 100 xValues, the count
\* becomes min(prior count, floor(width / (8 * avgLen))) when avgLen >= 1 and
\* stays as it was when xValues is empty or avgLen is 0; so an enabled ordinal
\* axis ends with min(number of xValues, floor(width / (8 * avgLen))) ticks.
C5_XTicksOnlyAdjustedDown ==
  LET ns == MeasuredLengths(call.xValues)
      total == Total(ns)
      t == chart.xTicks[1]
      fits(prior) ==
        /\ t.t = "number"
        /\ \A a \in 1..64 : IsRoundedAverage(a, total, Len(ns)) =>
             t.v = Min(prior, chart.width \div (8 * a))
        /\ (Len(ns) = 0 \/ IsRoundedAverage(0, total, Len(ns))) => t.v = prior
        /\ t.v <= prior
  IN  /\ call.fn = "adjustXAxisTicksIfNeeded" => fits(call.numTicks.v)
      /\ (call.fn = "applyChartOrdinalXAxis" /\ chart.settings.xAxisEnabled = "true")
           => fits(Len(call.xValues))

\* an enabled ordinal axis with more than 100 values, of which only as many
\* ticks are kept as fit the width
C5_Witness ==
  /\ call.fn = "applyChartOrdinalXAxis"
  /\ chart.settings.xAxisEnabled = "true"
  /\ Len(call.xValues) > 100
  /\ chart.width = 100
  /\ chart.xTicks = <<Num(12)>>

(***************************************************************************)
(* SpecAvg: averageStringLengthOfValues called on values of every shape.   *)
(***************************************************************************)
AvgValues == UNION { [1..n -> Strs] : n \in 0..MaxLen } \cup SpecialValues

InitAvg ==
  /\ chart = IdleChart
  /\ call = NoCall
  /\ callerXDomain = <<0, 0>>
  /\ store = IdleStore
  /\ ui = IdleUi

NextAvg == \E values \in AvgValues : measureValues(values)

SpecAvg == InitAvg /\ [][NextAvg]_vars

\* C7: averageStringLengthOfValues returns the average length of the values
\* as strings, measuring only the first 100 values, and returns 4 for the
\* documented input ["a", "toucan", "is", "wow"].
C7_AverageOfDocumentedInputIsFour ==
  call.fn = "averageStringLengthOfValues" =>
    /\ Len(call.values) > 0 =>
         /\ call.result.t = "number"
         /\ IsRoundedAverage(call.result.v, Total(MeasuredLengths(call.values)),
                             Len(MeasuredLengths(call.values)))
    /\ call.values = <<"a", "toucan", "is", "wow">> => call.result = Num(4)

(***************************************************************************)
(* applyChartTimeseriesXAxis.  An instant is a whole number of quarter     *)
(* hours; an interval is [interval, count] with interval "hour", "day",    *)
(* "week" or "month".  A month is taken as 30 days: the model has no       *)
(* calendar and no daylight saving.                                        *)
(***************************************************************************)
Interval(unit, count) == [interval |-> unit, count |-> count]

\* the length of one unit, in quarter hours
unitLength(unit) ==
  CASE unit = "hour" -> 4
    [] unit = "day" -> 96
    [] unit = "week" -> 672
    [] unit = "month" -> 2880

\* moment's absRound of quarters / 4, quarters >= 0: Math.round, halves up
absRound(quarters) == (quarters + 2) \div 4

\* what moment(x).add(count * 0.75, interval) adds, in quarter hours.  moment
\* keeps a duration as milliseconds, days and months: hours go to the
\* milliseconds as they are, while weeks become days and the days (and the
\* months) are rounded to whole numbers before they are applied.
momentAmount(dataInterval) ==
  CASE dataInterval.interval = "hour" -> 3 * dataInterval.count
    [] dataInterval.interval = "day" ->
         absRound(3 * dataInterval.count) * unitLength("day")
    [] dataInterval.interval = "week" ->
         absRound(3 * dataInterval.count * 7) * unitLength("day")
    [] dataInterval.interval = "month" ->
         absRound(3 * dataInterval.count) * unitLength("month")

\* the content of the xDomain array after the two padding assignments
paddedTimeDomain(xDomain, dataInterval) ==
  <<xDomain[1] - momentAmount(dataInterval), xDomain[2] + momentAmount(dataInterval)>>

\* the padding done on a copy: the caller's array keeps its content
timeseriesCallerDomainUntouched(xDomain, dataInterval) == xDomain

\* the array the caller passed, after applyChartTimeseriesXAxis wrote the
\* padded bounds into it
timeseriesCallerDomain(xDomain, dataInterval) ==
  paddedTimeDomain(xDomain, dataInterval)

\* _.chain(series).map(s => s.data.cols[0].timezone).filter(tz => tz).uniq().value()[0]
firstTimezone(series) ==
  IF \A i \in 1..Len(series) : series[i].timezone = "" THEN ""
  ELSE series[CHOOSE i \in 1..Len(series) :
                /\ series[i].timezone # ""
                /\ \A j \in 1..(i - 1) : series[j].timezone = ""].timezone

\* the intervals computeTimeseriesTicksInterval may answer
TickIntervals ==
  {Interval("hour", 1), Interval("day", 1), Interval("week", 1), Interval("month", 1)}

\* computeTimeseriesTicksInterval(xDomain, tickInterval, chart.width()) is a
\* function of its arguments; its answer is an input of the model
computeTimeseriesTicksInterval(answer) == answer

\* the tick interval after the axis steps: `changed` says whether the first
\* computeTimeseriesTicksInterval call of a weekly axis answered another
\* interval than the data's, `answer` is what the last call answers
timeseriesTickInterval(settings, dataInterval, changed, answer) ==
  IF Truthy(settings.xAxisEnabled)
  THEN computeTimeseriesTicksInterval(answer)
  ELSE dataInterval

\* the unit of the dimension column the tick format is given
timeseriesColumnUnit(column, dataInterval, changed) ==
  IF dataInterval.interval = "week" /\ changed THEN "month"
  ELSE IF column.unit = "" THEN dataInterval.interval ELSE column.unit

\* a function of its arguments answers the same twice: an unchanged weekly
\* interval is answered again by the last call; without the axis nothing is asked
AnswersAgree(settings, dataInterval, changed, answer) ==
  /\ changed => (dataInterval.interval = "week" /\ Truthy(settings.xAxisEnabled))
  /\ (Truthy(settings.xAxisEnabled) /\ dataInterval.interval = "week" /\ ~changed)
       => answer = dataInterval
  /\ ~Truthy(settings.xAxisEnabled) => answer = dataInterval

applyChartTimeseriesXAxis(series, xDomain, xInterval, changed, answer) ==
  LET firstSeries == firstNonEmpty(series)
      timezone == firstTimezone(series)
      dataInterval == xInterval
      settings == chart.settings
      c1 == withXAxisLabel(chart, firstSeries.col0)
      tickInterval == timeseriesTickInterval(settings, dataInterval, changed, answer)
      c2 == IF Truthy(settings.xAxisEnabled)
            THEN [c1 EXCEPT
                    !.verticalGridLines = settings.xGridLineEnabled,
                    !.xTickFormat =
                       ValueFormat(firstSeries.col0,
                                   timeseriesColumnUnit(firstSeries, dataInterval, changed),
                                   settings.xAxisEnabled = "compact"),
                    !.xTicks = <<Function, Num(tickInterval.count)>>]
            ELSE [c1 EXCEPT !.xTicks = <<Num(0)>>]
      again == /\ call.fn = "applyChartTimeseriesXAxis"
               /\ xDomain = callerXDomain
               /\ xInterval = call.xInterval
  IN  /\ HasNonEmpty(series)
      /\ AnswersAgree(settings, dataInterval, changed, answer)
      /\ chart' = [c2 EXCEPT
                     !.x = [type |-> "time",
                            domain |-> paddedTimeDomain(xDomain, dataInterval),
                            tz |-> timezone,
                            interval |-> tickInterval.interval,
                            count |-> tickInterval.count],
                     !.xUnits = dataInterval.interval,
                     !.xUnitsArg = dataInterval.count]
      /\ callerXDomain' = timeseriesCallerDomain(xDomain, dataInterval)
      /\ call' = [fn |-> "applyChartTimeseriesXAxis", xDomain |-> xDomain,
                  xInterval |-> xInterval,
                  original |-> IF again THEN call.original ELSE xDomain,
                  n |-> IF again THEN call.n + 1 ELSE 1]
      /\ UNCHANGED <<store, ui>>

(***************************************************************************)
(* The time scale's ticks.                                                 *)
(***************************************************************************)
\* Math.ceil(a / b) and Math.floor(a / b) for b > 0
ceilDiv(a, b) == 0 - ((0 - a) \div b)
floorDiv(a, b) == a \div b

\* moment().tz(tz).startOf("s").startOf(unit): the last unit boundary
tickAnchor(now, unit) == now - (now % unitLength(unit))

\* every.count(d): the intervals from the anchor to d, as a fraction
\* numerator / step; every.nth(k): the anchor moved by k intervals
everyStep(scale) == scale.count * unitLength(scale.interval)
everyNth(anchor, scale, k) == anchor + k * everyStep(scale)

\* startIndex rounded down: the tick before the domain is included
startIndexFloor(anchor, scale) ==
  floorDiv(scale.domain[1] - anchor, everyStep(scale))

startIndex(anchor, scale) == ceilDiv(scale.domain[1] - anchor, everyStep(scale))
endIndex(anchor, scale) == floorDiv(scale.domain[2] - anchor, everyStep(scale))

\* s.ticks()
scaleTicks(anchor, scale) ==
  LET startindex == startIndex(anchor, scale)
      endindex == endIndex(anchor, scale)
  IN  IF startindex > endindex THEN <<>>
      ELSE [i \in 1..(endindex + 1 - startindex) |->
              everyNth(anchor, scale, startindex + i - 1)]

\* dc asks the installed time scale for its ticks at the instant `now`; with no
\* timezone moment().tz(undefined) is no moment and the call cannot answer
xScaleTicks(now) ==
  /\ chart.x.type = "time"
  /\ chart.x.tz # ""
  /\ call' = [fn |-> "ticks", now |-> now,
              anchor |-> tickAnchor(now, chart.x.interval),
              ticks |-> scaleTicks(tickAnchor(now, chart.x.interval), chart.x)]
  /\ UNCHANGED <<chart, callerXDomain, store, ui>>

(***************************************************************************)
(* SpecT: a chart given a timeseries x axis (the same xDomain array passed *)
(* again, or a new one) or a quantitative one, and asked for its ticks.    *)
(***************************************************************************)
MaxCalls == 3      \* one xDomain array is passed at most MaxCalls times in a row

\* domains of an hour and a half, of a week, of one instant, and a reversed one
TDomains == {<<10, 16>>, <<10, 700>>, <<96, 96>>, <<700, 10>>}
\* domains of the quantitative axis: on one side of zero, and touching it
TQDomains == {<<-1, -1>>, <<1, 1>>, <<0, 1>>}
DataIntervals ==
  {Interval("hour", 1), Interval("hour", 2), Interval("day", 1), Interval("week", 1)}
Nows == {0, 100, 3000}

TSeries ==
  { <<Single(0, "e", "sum", ""), Single(2, "t", "count", "UTC")>>,
    <<Single(1, "t", "count", "")>> }

TSettings ==
  { [DefaultSettings EXCEPT !.xLabelsEnabled = "true", !.xAxisEnabled = a,
                            !.xGridLineEnabled = TRUE, !.xScale = sc] :
      a \in {"false", "true"}, sc \in {"timeseries", "log"} }

InitT ==
  /\ chart \in { NewChart(s, 100, 0, <<Num(10)>>, <<Num(10)>>) : s \in TSettings }
  /\ call = NoCall
  /\ callerXDomain = <<0, 0>>
  /\ store = IdleStore
  /\ ui = IdleUi

NextT ==
  \/ \E series \in TSeries, xDomain \in TDomains, xInterval \in DataIntervals,
        changed \in BOOLEAN :
       \E answer \in TickIntervals \cup {xInterval} :
         applyChartTimeseriesXAxis(series, xDomain, xInterval, changed, answer)
  \/ /\ call.fn = "applyChartTimeseriesXAxis"
     /\ call.n < MaxCalls
     /\ \E series \in TSeries, changed \in BOOLEAN,
           answer \in TickIntervals \cup {call.xInterval} :
          applyChartTimeseriesXAxis(series, callerXDomain, call.xInterval,
                                    changed, answer)
  \/ \E series \in QSeries, xValues \in QValues,
        xDomain \in TQDomains, xInterval \in Intervals :
       applyChartQuantitativeXAxis(series, xValues, xDomain, xInterval)
  \/ \E now \in Nows : xScaleTicks(now)

SpecT == InitT /\ [][NextT]_vars

TimeseriesCall == call.fn = "applyChartTimeseriesXAxis"

\* the whole number nearest to quarters / 4, halves up
NearestWhole(quarters) ==
  CHOOSE d \in 0..(quarters + 1) : 4 * d <= quarters + 2 /\ quarters + 2 < 4 * (d + 1)

\* what the quantitative axis leaves and installs; it pads a copy
QuantitativePadsACopy ==
  QuantCall =>
    /\ callerXDomain = call.xDomain
    /\ call.threw = "" =>
         chart.x.domain = <<4 * call.xDomain[1] - 3 * call.xInterval,
                            4 * call.xDomain[2] + 3 * call.xInterval>>

\* C9 as stated: applyChartTimeseriesXAxis overwrites the caller's xDomain
\* array, moving each bound out by 0.75 * xInterval.count of the data
\* interval, so that after n calls with the same array the installed domain
\* is the original widened by n * 0.75 * count intervals on each side;
\* applyChartQuantitativeXAxis leaves the array alone and installs the
\* original domain widened by 0.75 * xInterval.
C9_PadsByThreeQuartersOfTheInterval ==
  /\ TimeseriesCall =>
       LET pad == (3 * call.xInterval.count * unitLength(call.xInterval.interval)) \div 4
       IN  /\ callerXDomain = <<call.original[1] - call.n * pad,
                                call.original[2] + call.n * pad>>
           /\ chart.x.domain = callerXDomain
  /\ QuantitativePadsACopy

\* C9, amended: the bounds move by what moment adds for 0.75 * count of the
\* data interval: 0.75 * count hours for an hourly interval, and the whole
\* number of days nearest to 0.75 * count days (0.75 * 7 * count days for
\* weeks) otherwise, whatever the tick interval has become.  After n calls
\* with the same array the installed domain, which is the array's content,
\* is the original widened n times by that amount; the quantitative axis
\* leaves the array alone and, when it returns, installs the original domain
\* widened by 0.75 * xInterval.
C9_PadsInPlaceByMomentsAmount ==
  /\ TimeseriesCall =>
       LET count == call.xInterval.count
           unit == call.xInterval.interval
           pad == CASE unit = "hour" -> 3 * count
                    [] unit = "day" -> 96 * NearestWhole(3 * count)
                    [] unit = "week" -> 96 * NearestWhole(21 * count)
       IN  /\ callerXDomain = <<call.original[1] - call.n * pad,
                                call.original[2] + call.n * pad>>
           /\ chart.x.domain = callerXDomain
           /\ chart.xUnits = unit
  /\ QuantitativePadsACopy

\* the same array passed three times with a weekly interval whose ticks
\* became monthly: three times five days on each side
C9_Witness ==
  /\ TimeseriesCall
  /\ call.n = 3
  /\ call.xInterval = Interval("week", 1)
  /\ chart.x.interval = "month"
  /\ callerXDomain[1] = call.original[1] - 3 * 480
  /\ callerXDomain[2] = call.original[2] + 3 * 480

\* C8: s.ticks() returns, in increasing order and without gaps, exactly the
\* instants anchor + k * (count * interval) that lie in the scale's domain,
\* each >= domain[0] and <= domain[1], and the empty list when there is none.
C8_TicksInsideDomain ==
  call.fn = "ticks" =>
    LET lo == chart.x.domain[1]
        hi == chart.x.domain[2]
        step == chart.x.count * unitLength(chart.x.interval)
        ticks == call.ticks
    IN  /\ \A i \in 1..Len(ticks) :
             /\ lo <= ticks[i]
             /\ ticks[i] <= hi
             /\ (ticks[i] - call.anchor) % step = 0
        /\ \A i \in 1..(Len(ticks) - 1) : ticks[i + 1] = ticks[i] + step
        /\ \A t \in lo..hi :
             (t - call.anchor) % step = 0 => \E i \in 1..Len(ticks) : ticks[i] = t

\* several ticks counted back from an anchor after the domain, the first of
\* them inside the domain and not on its bound
C8_Witness ==
  /\ call.fn = "ticks"
  /\ Len(call.ticks) >= 2
  /\ call.ticks[1] > chart.x.domain[1]
  /\ call.ticks[Len(call.ticks)] < chart.x.domain[2]
  /\ call.anchor > chart.x.domain[2]

(***************************************************************************)
(* NewQueryOptions.  The store holds the query of the new-query flow and   *)
(* the metadata fetched so far; the component's props are the store's      *)
(* state.  A query is its database, its table ("" when not chosen) and its *)
(* aggregation clauses [short, field].                                     *)
(***************************************************************************)
DatabaseNames == {"db1", "db2"}

\* database.tables
tablesOf(database) ==
  IF database = "db1" THEN {"orders", "people"} ELSE {"events"}

AllTables == UNION {tablesOf(d) : d \in DatabaseNames}

databaseOf(table) == CHOOSE d \in DatabaseNames : table \in tablesOf(d)

\* the aggregation options of a table, the raw-data "rows" option left out;
\* "count" takes no field
AggregationShorts == {"count", "sum", "avg"}
optionHasFields(short) == short # "count"

\* aggregationOption.fields[0]
fieldsOf(table) == IF table = "people" THEN {"age"} ELSE {"total", "tax"}

EmptyQuery == [database |-> "", table |-> "", aggregations |-> <<>>]
Clause(short, field) == [short |-> short, field |-> field]

\* StructuredQuery: the accessors and updates the component uses
queryDatabase(q) == q.database
queryTable(q) == q.table
querySetDatabase(q, database) ==
  IF q.database = database THEN q ELSE [EmptyQuery EXCEPT !.database = database]
querySetTable(q, table) ==
  IF q.table = table THEN q
  ELSE [EmptyQuery EXCEPT !.database = databaseOf(table), !.table = table]
queryAddAggregation(q, clause) ==
  [q EXCEPT !.aggregations = Append(@, clause)]
queryUpdateAggregation(q, index, clause) ==
  [q EXCEPT !.aggregations[index] = clause]

\* query.aggregationOptionsWithoutRows(): known once the table's metadata is
aggregationOptionsWithoutRows(st) ==
  IF st.query.table \in st.tables THEN AggregationShorts ELSE {}

\* aggregation && aggregation.getOption(), for query.aggregationsWrapped()[0]:
\* the option's short name, "" when there is none
aggregationOptionOf(st) ==
  IF st.query.aggregations = <<>> THEN ""
  ELSE IF st.query.aggregations[1].short \in aggregationOptionsWithoutRows(st)
       THEN st.query.aggregations[1].short
       ELSE ""

\* what render() shows: the four guarded lists
showsLoading(st) == ~st.hasQuery
showsDatabases(st) == st.hasQuery /\ queryDatabase(st.query) = ""
showsTables(st) ==
  st.hasQuery /\ queryDatabase(st.query) # "" /\ queryTable(st.query) = ""
\* the aggregation list guarded by the table alone
showsAggregationsWithTable(st) == st.hasQuery /\ queryTable(st.query) # ""

showsAggregations(st) ==
  st.hasQuery /\ queryTable(st.query) # "" /\ aggregationOptionOf(st) = ""
showsFields(st) == st.hasQuery /\ aggregationOptionOf(st) # ""

NoClick == [list |-> "", item |-> ""]
Click(list, item) == [list |-> list, item |-> item]

\* componentWillMount: fetchDatabases() then resetQuery()
componentWillMount ==
  /\ ~ui.mounted
  /\ store' = [store EXCEPT !.requests = @ \cup {"databases"},
                            !.hasQuery = TRUE, !.query = EmptyQuery]
  /\ ui' = [ui EXCEPT !.mounted = TRUE]
  /\ UNCHANGED <<chart, call, callerXDomain>>

\* the answer to fetchDatabases() or fetchTableMetadata(id) arrives
fetched(what) ==
  /\ what \in store.requests
  /\ store' = [store EXCEPT
                 !.requests = @ \ {what},
                 !.databases = IF what = "databases" THEN DatabaseNames ELSE @,
                 !.tables = IF what = "databases" THEN @ ELSE @ \cup {what}]
  /\ UNCHANGED <<chart, call, callerXDomain, ui>>

\* a click on an item of the database list
setDatabase(database) ==
  /\ ui.mounted
  /\ showsDatabases(store)
  /\ database \in store.databases
  /\ store' = [store EXCEPT !.query = querySetDatabase(store.query, database)]
  /\ ui' = [ui EXCEPT !.click = Click("databases", database)]
  /\ UNCHANGED <<chart, call, callerXDomain>>

\* a click on an item of the table list
setTable(table) ==
  /\ ui.mounted
  /\ showsTables(store)
  /\ table \in tablesOf(queryDatabase(store.query))
  /\ store' = [store EXCEPT
                 !.requests = IF table \in store.tables THEN @ ELSE @ \cup {table},
                 !.query = querySetTable(store.query, table)]
  /\ ui' = [ui EXCEPT !.click = Click("tables", table)]
  /\ UNCHANGED <<chart, call, callerXDomain>>

\* a click on an item of the aggregation list
setAggregation(option) ==
  LET updatedQuery == queryAddAggregation(store.query, Clause(option, ""))
  IN  /\ ui.mounted
      /\ showsAggregations(store)
      /\ option \in aggregationOptionsWithoutRows(store)
      /\ IF optionHasFields(option)
         THEN /\ store' = [store EXCEPT !.query = updatedQuery]
              /\ ui' = [ui EXCEPT !.click = Click("aggregations", option)]
         ELSE /\ store' = store
              /\ ui' = [ui EXCEPT !.click = Click("aggregations", option),
                                  !.completed = <<updatedQuery>>]
      /\ UNCHANGED <<chart, call, callerXDomain>>

\* a click on an item of the field list
setAggregationField(field) ==
  LET aggregation == store.query.aggregations[1]
      updatedQuery ==
        queryUpdateAggregation(store.query, 1, Clause(aggregation.short, field))
  IN  /\ ui.mounted
      /\ showsFields(store)
      /\ field \in fieldsOf(queryTable(store.query))
      /\ ui' = [ui EXCEPT !.click = Click("fields", field),
                          !.completed = <<updatedQuery>>]
      /\ UNCHANGED <<chart, call, callerXDomain, store>>

(***************************************************************************)
(* SpecNQ: the store as an earlier flow left it, then the component        *)
(* mounted and its rendered items clicked while the fetches answer.        *)
(***************************************************************************)
\* queries an earlier flow may have left in the store
StaleQueries ==
  { EmptyQuery,
    [database |-> "db1", table |-> "", aggregations |-> <<>>],
    [database |-> "db1", table |-> "orders",
     aggregations |-> <<Clause("sum", "total")>>] }

InitNQ ==
  /\ chart = IdleChart
  /\ call = NoCall
  /\ callerXDomain = <<0, 0>>
  /\ \E q \in StaleQueries, has \in BOOLEAN, known \in SUBSET AllTables :
       store = [hasQuery |-> has, query |-> IF has THEN q ELSE EmptyQuery,
                databases |-> {}, tables |-> known, requests |-> {}]
  /\ ui = [mounted |-> FALSE, click |-> NoClick, completed |-> <<>>]

NextNQ ==
  \/ componentWillMount
  \/ \E what \in {"databases"} \cup AllTables : fetched(what)
  \/ \E database \in DatabaseNames : setDatabase(database)
  \/ \E table \in AllTables : setTable(table)
  \/ \E option \in AggregationShorts : setAggregation(option)
  \/ \E field \in {"total", "tax", "age"} : setAggregationField(field)

SpecNQ == InitNQ /\ [][NextNQ]_vars

\* the step of the flow a store state is at
Step(st) ==
  IF st.query.database = "" THEN 1
  ELSE IF st.query.table = "" THEN 2
  ELSE IF st.query.aggregations = <<>> THEN 3
  ELSE 4

ListsShown(st) ==
  {l \in {"databases", "tables", "aggregations", "fields"} :
     \/ l = "databases" /\ showsDatabases(st)
     \/ l = "tables" /\ showsTables(st)
     \/ l = "aggregations" /\ showsAggregations(st)
     \/ l = "fields" /\ showsFields(st)}

\* C10: in every state reached from mount by clicking rendered items exactly
\* one of the four lists is rendered (databases with no database chosen,
\* tables with a database and no table, aggregation options with a table and
\* no aggregation option, the option's fields with an option chosen), and the
\* step only advances in the order database, table, aggregation, field.
C10_OneListAtATimeInOrder ==
  /\ [](ui.mounted =>
          ListsShown(store) =
            {CASE Step(store) = 1 -> "databases"
               [] Step(store) = 2 -> "tables"
               [] Step(store) = 3 -> "aggregations"
               [] Step(store) = 4 -> "fields"})
  /\ [][(ui.mounted /\ ui'.mounted) =>
          /\ Step(store') \in {Step(store), Step(store) + 1}
          /\ Step(store') # Step(store) =>
               ui'.click.list = (CASE Step(store) = 1 -> "databases"
                                   [] Step(store) = 2 -> "tables"
                                   [] Step(store) = 3 -> "aggregations")]_vars

\* the field list of the chosen option rendered, after the three earlier clicks
C10_Witness ==
  /\ ui.mounted
  /\ Step(store) = 4
  /\ ListsShown(store) = {"fields"}
  /\ ui.click.list = "fields"
  /\ ui.completed # <<>>

====
